---- MODULE Spec2Model ----
(***************************************************************************)
(* Model of the multi-device Tuya dashboard server (server-multi, the      *)
(* second program of src/unnamed/part_001, lines 349-1054).                *)
(*                                                                         *)
(* JavaScript objects are modelled with their identity: a reading is an    *)
(* entry of `heap`, and the Map deviceData, the handlers' closures and the *)
(* pending toggle handlers hold references (indices) into it.  Messages    *)
(* carry copies, as JSON.stringify makes them at the time of the send.     *)
(* Numbers are exact decimals n / 10^k.  The timestamp field (wall clock)  *)
(* and the constant display fields name/type/room/ip/version are left out  *)
(* of a reading.                                                           *)
(***************************************************************************)
EXTENDS Integers, Sequences, FiniteSets, TLC

\* ---------------------------------------------------------------- bounds
\* Timer callbacks, link data events, REST requests and WebSocket messages
\* handled in a run.  What follows from them (connect results, link errors
\* and disconnects, set results) is not counted.
MaxEvents == 3

\* ------------------------------------------------------- program constants
StaggerMs == 2000
DisconnectRetryMs == 10000
ConnectRetryMs == 15000
CurrentScaleThreshold == 1000
SingleDisconnectRetryMs == 5000
SingleConnectRetryMs == 10000

Ids == {"device_1", "device_2"}

NoRef == 0
NoLink == 0
NoWriter == 0

\* ------------------------------------------------------------- numbers
\* A JavaScript value of a DPS point or metric: a number n / 10^k, or a
\* value whose typeof is not "number" (num = FALSE).
Num(n) == [num |-> TRUE, n |-> n, k |-> 0]
NotANumber == [num |-> FALSE, n |-> 0, k |-> 0]

RECURSIVE Pow10(_)
Pow10(e) == IF e = 0 THEN 1 ELSE 10 * Pow10(e - 1)

RECURSIVE Norm(_)
Norm(v) ==
    IF v.n = 0 THEN [v EXCEPT !.k = 0]
    ELSE IF v.k > 0 /\ v.n % 10 = 0
         THEN Norm([v EXCEPT !.n = v.n \div 10, !.k = v.k - 1])
         ELSE v

\* x / 10^e
DivPow10(v, e) == Norm([v EXCEPT !.k = v.k + e])

\* x > m, for an integer m
GreaterThan(v, m) == v.n > m * Pow10(v.k)

\* ------------------------------------------------------------- readings
initializeDeviceData(deviceConfig) ==
    [id |-> deviceConfig.id,
     power_state |-> FALSE,
     current |-> Num(0),
     power |-> Num(0),
     voltage |-> Num(0),
     energy |-> Num(0),
     connected |-> FALSE,
     enabled |-> deviceConfig.enabled]

\* ------------------------------------------------------ JavaScript Map
\* A Map keeps its keys in insertion order: a sequence of <<key, value>>.
MapHas(m, key) == \E i \in 1..Len(m) : m[i][1] = key
MapIndex(m, key) == CHOOSE i \in 1..Len(m) : m[i][1] = key
MapGet(m, key, undef) == IF MapHas(m, key) THEN m[MapIndex(m, key)][2] ELSE undef
MapSet(m, key, val) ==
    IF MapHas(m, key)
    THEN [m EXCEPT ![MapIndex(m, key)] = <<key, val>>]
    ELSE Append(m, <<key, val>>)
MapDeleteAll(m, key) == << >>
MapDelete(m, key) == SelectSeq(m, LAMBDA e : e[1] # key)

\* --------------------------------------------------------------- state
VARIABLES
    booted,         \* server.listen's callback has run connectToAllDevices
    envSet,         \* process.env.TUYA_DEVICE_ID is set
    fileExists,     \* devices.json exists
    fileConfig,     \* devices.json: sequence of [id, enabled]
    heap,           \* the reading objects, by reference
    deviceData,     \* Map id -> reference of a reading
    deviceWriters,  \* Map id -> CSV writer (numbered by creation)
    nextWriter,     \* number of CSV writers created
    links,          \* the TuyAPI instances, by creation
    devices,        \* Map id -> TuyAPI instance
    timers,         \* pending setTimeout(connectToDevice) callbacks
    pending,        \* toggle handlers waiting on device.set
    events,         \* timer callbacks, data events and requests handled
    removed,        \* history: ids removed by DELETE and not added again
    disabledLoaded, \* history: ids loaded disabled at startup, not removed since
    configured,     \* history: ids of the loaded configs, then of accepted adds
    published,      \* history: per id, the newest reading a data event published
    deviceKeys,     \* the keys of `devices` in insertion order
    refreshOn,      \* startPeriodicRefresh has set its interval
    polls,          \* runs of the refresh callback waiting on device.get
    listening,        \* single-device server: app.listen's callback has run
    deviceConnected,  \* single-device server: the connection flag
    latestDeviceData, \* single-device server: the reading
    linkUp,           \* single-device server: the TuyAPI socket is open
    connectCalls,     \* connectToDevice calls waiting on find()/connect()
    listeners,        \* times the data/error/disconnect handlers were added
    intervals,        \* setInterval pollers running
    retryTimers,      \* pending setTimeout(connectToDevice) callbacks
    statusCalls,      \* getDeviceStatusSafe calls waiting on the race
    setCalls,         \* single-device toggle handlers waiting on device.set
    sent,             \* what the single-device server sent in its last step
    wsClients,        \* wss.clients: readyState of each client, "" if absent
    fanout,           \* the last broadcastToClients call: message, receivers
    raw,              \* the arguments of a function examined on its own
    stored,           \* what the function made of them
    retryDelays,      \* per device: delays its connect failures scheduled in a row
    singleRetryDelays, \* the same for the single-device server
    dash,             \* a dashboard page on a socket of the multi-device server
    page,             \* the dashboard's sockets, connecting flag and timers
    out             \* what the last step sent: broadcasts, replies, set calls

vars == <<booted, envSet, fileExists, fileConfig, heap, deviceData,
          deviceWriters, nextWriter, links, devices, timers, pending,
          events, removed, disabledLoaded, configured, published,
          deviceKeys, refreshOn, polls, out,
          listening, deviceConnected, latestDeviceData, linkUp, connectCalls,
          listeners, intervals, retryTimers, statusCalls, setCalls, sent,
          wsClients, fanout, raw, stored, retryDelays, singleRetryDelays,
          dash, page>>

\* The state of the multi-device server, but for the event count.
multiVars == <<booted, envSet, fileExists, fileConfig, heap, deviceData,
               deviceWriters, nextWriter, links, devices, timers, pending,
               removed, disabledLoaded, configured, published,
               deviceKeys, refreshOn, polls, out, retryDelays, dash>>

\* The state of the specifications that look at one function on its own.
standaloneVars == <<wsClients, fanout, raw, stored, page>>

\* The state of the single-device server.
singleVars == <<listening, deviceConnected, latestDeviceData, linkUp,
                connectCalls, listeners, intervals, retryTimers, statusCalls,
                setCalls, sent, singleRetryDelays>>

Reading(id) == heap[MapGet(deviceData, id, NoRef)]
HasReading(id) == MapHas(deviceData, id)

\* -------------------------------------------------------------- outputs
NoOut == [bcast |-> <<>>, reply |-> <<>>, set |-> <<>>, csv |-> <<>>, log |-> <<>>]

Msg(type, id, data, error) ==
    [type |-> type, deviceId |-> id, data |-> data, error |-> error]

\* JSON.stringify of a reading reference that may be undefined
Copy(h, ref) == IF ref = NoRef THEN <<>> ELSE <<h[ref]>>

\* ------------------------------------------ the dashboard's connection
\* App before its effect has run: no WebSocket yet, useState(true) for
\* connecting, useState(null) for ws (0 is null, otherwise the socket's
\* number), no reconnect timer pending.
NoPage == [mounted |-> FALSE, sockets |-> << >>, connecting |-> TRUE,
           ws |-> 0, timers |-> 0]

\* The ws that connectWebSocket sees: useCallback(..., []) keeps the
\* function of the first render, whose ws is the initial null.
ClosureWs == 0

\* connectWebSocket: close the socket it sees, make a new one, setWs.
connectWebSocket(p) ==
    LET closed == IF ClosureWs # 0 /\ p.sockets[ClosureWs] # "CLOSED"
                  THEN [p.sockets EXCEPT ![ClosureWs] = "CLOSING"]
                  ELSE p.sockets
    IN  [p EXCEPT !.sockets = Append(closed, "CONNECTING"),
                  !.ws = Len(p.sockets) + 1]

\* websocket.onclose without setConnecting(true)
oncloseNoFlag(p) == [p EXCEPT !.timers = @ + 1]

\* websocket.onclose: setConnecting(true); setTimeout(connectWebSocket, 3000)
onclose(p) == [p EXCEPT !.connecting = TRUE, !.timers = @ + 1]

\* ------------------------------------------------- the dashboard page
\* The page's socket as the server sees it (open: it is in wss.clients with
\* readyState OPEN), the first message the server sent on it, and the
\* page's `devices` state.
NoDash == [open |-> FALSE, first |-> << >>, devices |-> << >>]

\* prev.map(device => device.id === message.deviceId ? entry : device),
\* entries[i] being the entry for prev[i]
MapDevices(prev, deviceId, entries) ==
    [i \in 1..Len(prev) |-> IF prev[i].id = deviceId THEN entries[i] ELSE prev[i]]

\* The device_data branch with the push done for every message.
deviceDataUpdateAlwaysPush(prev, message) ==
    Append(MapDevices(prev, message.deviceId,
                               [i \in 1..Len(prev) |-> message.data[1]]),
           message.data[1])

\* The updater of the device_data branch.
deviceDataUpdate(prev, message) ==
    LET updated == MapDevices(prev, message.deviceId,
                               [i \in 1..Len(prev) |-> message.data[1]])
    IN  IF ~ \E i \in 1..Len(prev) : prev[i].id = message.deviceId
        THEN Append(updated, message.data[1])
        ELSE updated

\* websocket.onmessage: the page's devices after one message.  The server
\* sends every device_data with a reading in it.
onmessage(prev, message) ==
    IF message.type = "initial_data" THEN message.data
    ELSE IF message.type = "device_data" /\ message.data # << >>
         THEN deviceDataUpdate(prev, message)
    ELSE IF message.type \in {"device_connect", "device_disconnect"}
         THEN MapDevices(prev, message.deviceId,
                         [i \in 1..Len(prev) |->
                             [prev[i] EXCEPT !.connected =
                                  (message.type = "device_connect")]])
    ELSE IF message.type = "device_removed"
         THEN SelectSeq(prev, LAMBDA device : device.id # message.deviceId)
    ELSE prev

RECURSIVE onmessages(_, _)
onmessages(prev, messages) ==
    IF messages = << >> THEN prev
    ELSE onmessages(onmessage(prev, Head(messages)), Tail(messages))

\* What broadcastToClients sent in this step reaches the page's open socket
\* and is handled there, in the order sent.
Deliver ==
    dash' = IF dash.open
            THEN [dash EXCEPT
                     !.first = IF @ = << >> /\ out'.bcast # << >>
                               THEN << out'.bcast[1] >>
                               ELSE @,
                     !.devices = onmessages(@, out'.bcast)]
            ELSE dash

\* ------------------------------------------------------ handleDeviceData
\* The DPS map of a data event: a function from point ids to values; a
\* point that is absent from its domain reads as undefined.
Has(dps, p) == p \in DOMAIN dps

ScaleCurrent(r) ==
    IF r.current.num /\ GreaterThan(r.current, CurrentScaleThreshold)
    THEN [r EXCEPT !.current = DivPow10(r.current, 1)]
    ELSE r

ScaleVoltage(r) ==
    IF r.voltage.num THEN [r EXCEPT !.voltage = DivPow10(r.voltage, 1)] ELSE r

ScalePowerUnscaled(r) == r

ScalePower(r) ==
    IF r.power.num THEN [r EXCEPT !.power = DivPow10(r.power, 1)] ELSE r

ScaleEnergy(r) ==
    IF r.energy.num THEN [r EXCEPT !.energy = DivPow10(r.energy, 3)] ELSE r

\* updatedData, as built from currentData and the DPS map
handleDeviceData(currentData, dps) ==
    LET merged ==
            [currentData EXCEPT
                !.power_state = IF Has(dps, "1") THEN dps["1"] ELSE currentData.power_state,
                !.current = IF Has(dps, "18") THEN dps["18"] ELSE currentData.current,
                !.power = IF Has(dps, "19") THEN dps["19"] ELSE currentData.power,
                !.voltage = IF Has(dps, "20") THEN dps["20"] ELSE currentData.voltage,
                !.energy = IF Has(dps, "22") THEN dps["22"] ELSE currentData.energy,
                !.connected = TRUE]
    IN  ScaleEnergy(ScaleCurrent(ScalePower(ScaleVoltage(merged))))

\* The data events the link delivers in the model: a full status, a partial
\* update, and an update with an undocumented point only.
DataEvents ==
    { ("1" :> TRUE) @@ ("18" :> Num(20000)) @@ ("19" :> Num(123))
          @@ ("20" :> Num(2305)) @@ ("22" :> Num(1500)),
      ("18" :> Num(500)),
      ("99" :> Num(7)) }

\* -------------------------------------------------------- configuration
Config(id, enabled) == [id |-> id, enabled |-> enabled]

\* The contents devices.json has at startup in the model; ids are distinct.
StartupFiles ==
    { << Config("device_1", TRUE) >>,
      << Config("device_1", TRUE), Config("device_2", FALSE) >>,
      << Config("device_2", FALSE), Config("device_1", TRUE) >> }

\* Startup contents with more than one enabled device.
StaggerFiles ==
    { << Config("device_1", TRUE), Config("device_2", TRUE) >>,
      << Config("device_2", TRUE), Config("device_1", TRUE) >>,
      << Config("device_2", FALSE), Config("device_1", TRUE) >> }

loadDeviceConfig ==
    IF fileExists THEN fileConfig
    ELSE IF envSet THEN << Config("device_1", TRUE) >>
    ELSE << >>

FileHasId(id) == \E i \in 1..Len(fileConfig) : fileConfig[i].id = id

\* The WebSocket clients of the model.
Clients == {"c1", "c2", "c3"}

\* No broadcastToClients call in the last step.
NoFanout == [message |-> << >>, sentTo |-> {}]

\* --------------------------------------------------------------- Init
\* The state after construction, devices.json holding one of `files`.
InitFrom(files) ==
    /\ booted = FALSE
    /\ fileExists \in BOOLEAN
    /\ envSet \in (IF fileExists THEN {FALSE} ELSE BOOLEAN)
    /\ fileConfig \in (IF fileExists THEN files ELSE { << >> })
    /\ heap = << >>
    /\ deviceData = << >>
    /\ deviceWriters = << >>
    /\ nextWriter = 0
    /\ links = << >>
    /\ devices = [d \in Ids |-> NoLink]
    /\ timers = << >>
    /\ pending = << >>
    /\ events = 0
    /\ removed = {}
    /\ disabledLoaded = {}
    /\ configured = << >>
    /\ published = [d \in Ids |-> NoRef]
    /\ deviceKeys = << >>
    /\ refreshOn = FALSE
    /\ polls = << >>
    /\ out = NoOut
    /\ listening = FALSE
    /\ deviceConnected = FALSE
    /\ latestDeviceData = [power_state |-> FALSE, current |-> Num(0),
                           power |-> Num(0), voltage |-> Num(0),
                           energy |-> Num(0), connected |-> FALSE]
    /\ linkUp = FALSE
    /\ connectCalls = 0
    /\ listeners = 0
    /\ intervals = 0
    /\ retryTimers = << >>
    /\ statusCalls = << >>
    /\ setCalls = << >>
    /\ sent = NoOut
    /\ wsClients = [c \in Clients |-> ""]
    /\ fanout = NoFanout
    /\ retryDelays = [d \in Ids |-> << >>]
    /\ singleRetryDelays = << >>
    /\ dash = NoDash
    /\ page = NoPage

ProgramInit == InitFrom(StartupFiles)

Init ==
    /\ ProgramInit
    /\ raw = << >>
    /\ stored = << >>

RemoveAt(s, i) == SubSeq(s, 1, i - 1) \o SubSeq(s, i + 1, Len(s))

\* ------------------------------------------------- connectToAllDevices
\* A filter that lets every config through.
EnabledDevicesUnfiltered(deviceConfigs) == deviceConfigs

\* deviceConfigs.filter((device) => device.enabled)
EnabledDevices(deviceConfigs) == SelectSeq(deviceConfigs, LAMBDA c : c.enabled)

\* s.indexOf(x): the zero-based position of the first element that is x
IndexOf(s, x) ==
    (CHOOSE j \in 1..Len(s) : s[j] = x /\ \A m \in 1..(j - 1) : s[m] # x) - 1

\* the delay of the startup timer, without the stagger
StartupDelayNone(enabledDevices, deviceConfig) == 0

\* enabledDevices.indexOf(deviceConfig) * 2000
StartupDelay(enabledDevices, deviceConfig) ==
    IndexOf(enabledDevices, deviceConfig) * StaggerMs

\* server.listen(PORT, ...) calls back once the port is bound; the
\* single-device server binds the same default port.
connectToAllDevices ==
    /\ ~booted
    /\ ~listening
    /\ booted' = TRUE
    /\ LET deviceConfigs == loadDeviceConfig
           enabledDevices == EnabledDevices(deviceConfigs)
       IN  /\ heap' = [i \in 1..Len(deviceConfigs) |->
                          initializeDeviceData(deviceConfigs[i])]
           /\ deviceData' = [i \in 1..Len(deviceConfigs) |->
                                <<deviceConfigs[i].id, i>>]
           /\ deviceWriters' = [i \in 1..Len(deviceConfigs) |->
                                   <<deviceConfigs[i].id, i>>]
           /\ nextWriter' = Len(deviceConfigs)
           /\ timers' = [i \in 1..Len(enabledDevices) |->
                            [id |-> enabledDevices[i].id,
                             delay |-> StartupDelay(enabledDevices,
                                                    enabledDevices[i])]]
           /\ disabledLoaded' =
                  { deviceConfigs[i].id : i \in { j \in 1..Len(deviceConfigs) :
                                                    ~deviceConfigs[j].enabled } }
           /\ configured' = [i \in 1..Len(deviceConfigs) |-> deviceConfigs[i].id]
           /\ refreshOn' = (Len(deviceConfigs) # 0)
    /\ out' = NoOut
    /\ UNCHANGED <<envSet, fileExists, fileConfig, links, devices, pending,
                   events, removed,
                   published, deviceKeys, polls,
                   retryDelays>>
    /\ Deliver
    /\ UNCHANGED singleVars
    /\ UNCHANGED standaloneVars

\* ------------------------------------------------------ connectToDevice
\* A connectToDevice call that creates no TuyAPI instance.
StartConnectSkipped(id) == links' = links

\* connectToDevice up to its first await: a new TuyAPI instance whose
\* find()/connect() is pending.
StartConnect(id) ==
    links' = Append(links, [id |-> id, st |-> "connecting", cd |-> NoRef])

\* A setTimeout(() => connectToDevice(deviceConfig), ...) callback runs.
\* A timer that was set no later and with no longer a delay runs first.
TimerFire(i) ==
    /\ booted
    /\ i \in 1..Len(timers)
    /\ \A j \in 1..(i - 1) : timers[j].delay > timers[i].delay
    /\ events < MaxEvents
    /\ events' = events + 1
    /\ StartConnect(timers[i].id)
    /\ timers' = RemoveAt(timers, i)
    /\ out' = NoOut
    /\ UNCHANGED <<booted, envSet, fileExists, fileConfig, heap, deviceData,
                   deviceWriters, nextWriter, devices, pending, removed, disabledLoaded,
                   configured, published, deviceKeys, refreshOn, polls,
                   retryDelays>>
    /\ Deliver
    /\ UNCHANGED singleVars
    /\ UNCHANGED standaloneVars

\* setTimeout(() => connectToDevice(deviceConfig), 15000) of the catch block
ScheduleRetryAtOnce(ts, deviceId) == Append(ts, [id |-> deviceId, delay |-> 0])

ScheduleRetry(ts, deviceId) ==
    Append(ts, [id |-> deviceId, delay |-> ConnectRetryMs])

\* find() and connect() resolve: the rest of the try block.
ConnectSuccess(l) ==
    /\ l \in 1..Len(links)
    /\ links[l].st = "connecting"
    /\ LET deviceId == links[l].id
           currentData == MapGet(deviceData, deviceId, NoRef)
       IN  /\ devices' = [devices EXCEPT ![deviceId] = l]
           /\ deviceKeys' = IF devices[deviceId] = NoLink
                            THEN Append(deviceKeys, deviceId)
                            ELSE deviceKeys
           /\ heap' = IF currentData # NoRef
                      THEN [heap EXCEPT ![currentData].connected = TRUE]
                      ELSE heap
           /\ links' = [links EXCEPT ![l] = [id |-> deviceId, st |-> "connected",
                                             cd |-> currentData]]
           /\ out' = [NoOut EXCEPT !.bcast =
                         << Msg("device_connect", deviceId,
                                Copy(heap', currentData), "") >>]
           /\ retryDelays' = [retryDelays EXCEPT ![deviceId] = << >>]
    /\ UNCHANGED <<booted, envSet, fileExists, fileConfig, deviceData,
                   deviceWriters, nextWriter, timers, pending, events, removed, disabledLoaded,
                   configured, published, refreshOn, polls>>
    /\ Deliver
    /\ UNCHANGED singleVars
    /\ UNCHANGED standaloneVars

\* find() or connect() rejects: the catch block.
ConnectFail(l) ==
    /\ l \in 1..Len(links)
    /\ links[l].st = "connecting"
    /\ LET deviceId == links[l].id
           currentData == MapGet(deviceData, deviceId, NoRef)
       IN  /\ heap' = IF currentData # NoRef
                      THEN [heap EXCEPT ![currentData].connected = FALSE]
                      ELSE heap
           /\ links' = [links EXCEPT ![l].st = "failed"]
           /\ out' = [NoOut EXCEPT !.bcast =
                         << Msg("device_error", deviceId, << >>, "connect") >>]
           /\ timers' = ScheduleRetry(timers, deviceId)
           /\ retryDelays' = [retryDelays EXCEPT ![deviceId] =
                                 Append(@, timers'[Len(timers')].delay)]
    /\ UNCHANGED <<booted, envSet, fileExists, fileConfig, deviceData,
                   deviceWriters, nextWriter, devices, pending, events, removed, disabledLoaded,
                   configured, published, deviceKeys, refreshOn, polls>>
    /\ Deliver
    /\ UNCHANGED singleVars
    /\ UNCHANGED standaloneVars

\* -------------------------------------------------- link event handlers
\* device.on("data"): handleDeviceData(deviceId, data).
OnData(l, dps) ==
    /\ l \in 1..Len(links)
    /\ links[l].st = "connected"
    /\ events < MaxEvents
    /\ events' = events + 1
    /\ LET deviceId == links[l].id
           currentData == MapGet(deviceData, deviceId, NoRef)
           updatedData == handleDeviceData(heap[currentData], dps)
           writer == MapGet(deviceWriters, deviceId, NoWriter)
       IN  IF currentData = NoRef
           THEN /\ out' = NoOut
                /\ UNCHANGED <<heap, deviceData, published>>
           ELSE /\ heap' = Append(heap, updatedData)
                /\ published' = [published EXCEPT ![deviceId] = Len(heap) + 1]
                /\ deviceData' = MapSet(deviceData, deviceId, Len(heap) + 1)
                /\ out' = [NoOut EXCEPT
                             !.csv = IF writer # NoWriter
                                     THEN << [writer |-> writer, record |-> updatedData] >>
                                     ELSE << >>,
                             !.bcast = << Msg("device_data", deviceId,
                                              << updatedData >>, "") >>]
    /\ UNCHANGED <<booted, envSet, fileExists, fileConfig, deviceWriters,
                   nextWriter, links, devices, timers, pending, removed, disabledLoaded,
                   configured, deviceKeys, refreshOn, polls,
                   retryDelays>>
    /\ Deliver
    /\ UNCHANGED singleVars
    /\ UNCHANGED standaloneVars

\* What the error and disconnect handlers do to the reading their closure
\* captured when the connect succeeded.
MarkClosureDisconnected(l) ==
    LET deviceId == links[l].id
        currentData == links[l].cd
    IN  IF currentData # NoRef
        THEN /\ heap' = [heap EXCEPT ![currentData].connected = FALSE]
             /\ deviceData' = MapSet(deviceData, deviceId, currentData)
        ELSE UNCHANGED <<heap, deviceData>>

\* device.on("error")
OnError(l) ==
    /\ l \in 1..Len(links)
    /\ links[l].st = "connected"
    /\ MarkClosureDisconnected(l)
    /\ out' = [NoOut EXCEPT !.bcast =
                  << Msg("device_error", links[l].id, << >>, "link") >>]
    /\ UNCHANGED <<booted, envSet, fileExists, fileConfig, deviceWriters,
                   nextWriter, links, devices, timers, pending, events, removed, disabledLoaded,
                   configured, published, deviceKeys, refreshOn, polls,
                   retryDelays>>
    /\ Deliver
    /\ UNCHANGED singleVars
    /\ UNCHANGED standaloneVars

\* device.on("disconnect"): the link reports that it is closed, by itself
\* or after device.disconnect() was called on it.
OnDisconnect(l) ==
    /\ l \in 1..Len(links)
    /\ links[l].st \in {"connected", "closing"}
    /\ MarkClosureDisconnected(l)
    /\ links' = [links EXCEPT ![l].st = "closed"]
    /\ out' = [NoOut EXCEPT !.bcast =
                  << Msg("device_disconnect", links[l].id, << >>, "") >>]
    /\ timers' = Append(timers, [id |-> links[l].id, delay |-> DisconnectRetryMs])
    /\ UNCHANGED <<booted, envSet, fileExists, fileConfig, deviceWriters,
                   nextWriter, devices, pending, events,
                   removed, disabledLoaded,
                   configured, published, deviceKeys, refreshOn, polls,
                   retryDelays>>
    /\ Deliver
    /\ UNCHANGED singleVars
    /\ UNCHANGED standaloneVars

\* ---------------------------------------------------------------- toggle
SetsInFlight(id) == { i \in 1..Len(pending) : pending[i].id = id }

\* The test without its `currentData.connected` conjunct.
CanToggleIgnoringConnected(id) ==
    /\ id \in Ids
    /\ devices[id] # NoLink
    /\ HasReading(id)

\* The test both toggle handlers make before they call device.set.
CanToggle(id) ==
    /\ id \in Ids
    /\ devices[id] # NoLink
    /\ HasReading(id)
    /\ Reading(id).connected

\* Both handlers up to `await device.set({ dps: 1, set: newState })`.
StartToggle(via, id) ==
    IF CanToggle(id)
    THEN LET newState == ~Reading(id).power_state
             call == [via |-> via, id |-> id, link |-> devices[id],
                      cd |-> MapGet(deviceData, id, NoRef), val |-> newState]
         IN  /\ pending' = Append(pending, call)
             /\ out' = [NoOut EXCEPT !.set =
                           << [link |-> devices[id], dps |-> "1", set |-> newState] >>]
    ELSE /\ pending' = pending
         /\ out' = [NoOut EXCEPT !.reply =
                       << [via |-> via, ok |-> FALSE, error |-> "Device not connected",
                           new_state |-> FALSE] >>]

\* ws.on("message") with { type: "toggle", deviceId }
WsToggle(id) ==
    /\ booted
    /\ events < MaxEvents
    /\ events' = events + 1
    /\ StartToggle("ws", id)
    /\ UNCHANGED <<booted, envSet, fileExists, fileConfig, heap, deviceData,
                   deviceWriters, nextWriter, links, devices, timers,
                   removed, disabledLoaded,
                   configured, published, deviceKeys, refreshOn, polls,
                   retryDelays>>
    /\ Deliver
    /\ UNCHANGED singleVars
    /\ UNCHANGED standaloneVars

\* POST /api/devices/:deviceId/toggle
RestToggle(id) ==
    /\ booted
    /\ events < MaxEvents
    /\ events' = events + 1
    /\ StartToggle("rest", id)
    /\ UNCHANGED <<booted, envSet, fileExists, fileConfig, heap, deviceData,
                   deviceWriters, nextWriter, links, devices, timers,
                   removed, disabledLoaded,
                   configured, published, deviceKeys, refreshOn, polls,
                   retryDelays>>
    /\ Deliver
    /\ UNCHANGED singleVars
    /\ UNCHANGED standaloneVars

\* A handler that runs its "update local state" block whatever device.set did.
ToggleUpdatesAlways(call, ok) == call.via = "ws"

\* Whether the handler reaches its "update local state" block: only the
\* WebSocket handler has one, inside the try, after the awaited device.set.
ToggleUpdates(call, ok) == call.via = "ws" /\ ok

\* device.set resolves (ok) or rejects: the rest of the handler.
SetDone(i, ok) ==
    /\ i \in 1..Len(pending)
    /\ pending' = RemoveAt(pending, i)
    /\ LET call == pending[i]
       IN  IF ToggleUpdates(call, ok)
           THEN /\ heap' = [heap EXCEPT ![call.cd].power_state = call.val]
                /\ deviceData' = MapSet(deviceData, call.id, call.cd)
                /\ out' = [NoOut EXCEPT !.bcast =
                              << Msg("device_data", call.id, << heap'[call.cd] >>, "") >>]
           ELSE /\ UNCHANGED <<heap, deviceData>>
                /\ out' = [NoOut EXCEPT !.reply =
                              << [via |-> call.via, ok |-> ok,
                                  error |-> IF ok THEN "" ELSE "set failed",
                                  new_state |-> ok /\ call.val] >>]
    /\ UNCHANGED <<booted, envSet, fileExists, fileConfig, deviceWriters,
                   nextWriter, links, devices, timers, events,
                   removed, disabledLoaded,
                   configured, published, deviceKeys, refreshOn, polls,
                   retryDelays>>
    /\ Deliver
    /\ UNCHANGED singleVars
    /\ UNCHANGED standaloneVars

\* ------------------------------------------------------ POST /api/devices
\* A request body: the four required fields, "" when missing or empty.
Body(id, device_id, device_key, device_ip) ==
    [id |-> id, device_id |-> device_id, device_key |-> device_key,
     device_ip |-> device_ip]

\* The bodies the model posts: a complete one for each id, and one for each
\* required field with just that field missing.
Bodies ==
    { Body(id, "bf1", "key", "10.0.0.9") : id \in Ids }
        \cup { Body("", "bf1", "key", "10.0.0.9"),
                Body("device_2", "", "key", "10.0.0.9"),
                Body("device_2", "bf1", "", "10.0.0.9"),
                Body("device_2", "bf1", "key", "") }

\* The validation with only its `!deviceConfig.id` test.
MissingRequiredFieldsIdOnly(deviceConfig) == deviceConfig.id = ""

\* if (!deviceConfig.id || !deviceConfig.device_id || !deviceConfig.device_key
\*     || !deviceConfig.device_ip)
MissingRequiredFields(deviceConfig) ==
    \/ deviceConfig.id = ""
    \/ deviceConfig.device_id = ""
    \/ deviceConfig.device_key = ""
    \/ deviceConfig.device_ip = ""

Reply(via, ok, error) == [via |-> via, ok |-> ok, error |-> error, new_state |-> FALSE]

AddDevice(body) ==
    /\ booted
    /\ events < MaxEvents
    /\ events' = events + 1
    /\ LET currentConfig == IF fileExists THEN fileConfig ELSE << >>
           newDevice == Config(body.id, TRUE)
       IN  IF MissingRequiredFields(body)
           THEN /\ out' = [NoOut EXCEPT !.reply =
                              << Reply("add", FALSE, "Missing required fields") >>]
                /\ UNCHANGED <<fileExists, fileConfig, heap, deviceData,
                               deviceWriters, nextWriter, links, removed,
                               configured>>
           ELSE IF \E i \in 1..Len(currentConfig) : currentConfig[i].id = body.id
           THEN /\ out' = [NoOut EXCEPT !.reply =
                              << Reply("add", FALSE, "Device ID already exists") >>]
                /\ UNCHANGED <<fileExists, fileConfig, heap, deviceData,
                               deviceWriters, nextWriter, links, removed,
                               configured>>
           ELSE /\ fileExists' = TRUE
                /\ fileConfig' = Append(currentConfig, newDevice)
                /\ heap' = Append(heap, initializeDeviceData(newDevice))
                /\ deviceData' = MapSet(deviceData, newDevice.id, Len(heap) + 1)
                /\ nextWriter' = nextWriter + 1
                /\ deviceWriters' = MapSet(deviceWriters, newDevice.id, nextWriter + 1)
                /\ StartConnect(newDevice.id)
                /\ removed' = removed \ {newDevice.id}
                /\ configured' = Append(configured, newDevice.id)
                /\ out' = [NoOut EXCEPT !.reply = << Reply("add", TRUE, "") >>]
    /\ UNCHANGED <<booted, envSet, devices, timers, pending, disabledLoaded,
                   published, deviceKeys, refreshOn, polls,
                   retryDelays>>
    /\ Deliver
    /\ UNCHANGED singleVars
    /\ UNCHANGED standaloneVars

\* -------------------------------------------- DELETE /api/devices/:deviceId
RemoveDevice(deviceId) ==
    /\ booted
    /\ events < MaxEvents
    /\ events' = events + 1
    /\ deviceId \in Ids
    /\ LET device == devices[deviceId]
       IN  links' = IF device # NoLink /\ links[device].st = "connected"
                    THEN [links EXCEPT ![device].st = "closing"]
                    ELSE links
    /\ devices' = [devices EXCEPT ![deviceId] = NoLink]
    /\ deviceData' = MapDelete(deviceData, deviceId)
    /\ deviceWriters' = MapDelete(deviceWriters, deviceId)
    /\ fileConfig' = IF fileExists
                     THEN SelectSeq(fileConfig, LAMBDA d : d.id # deviceId)
                     ELSE fileConfig
    /\ removed' = removed \cup {deviceId}
    /\ configured' = SelectSeq(configured, LAMBDA d : d # deviceId)
    /\ deviceKeys' = SelectSeq(deviceKeys, LAMBDA d : d # deviceId)
    /\ polls' = [r \in 1..Len(polls) |->
                    [polls[r] EXCEPT !.visited = @ \ {deviceId}]]
    /\ disabledLoaded' = disabledLoaded \ {deviceId}
    /\ out' = [NoOut EXCEPT
                  !.bcast = << Msg("device_removed", deviceId, << >>, "") >>,
                  !.reply = << Reply("remove", TRUE, "") >>]
    /\ UNCHANGED <<booted, envSet, fileExists, heap, nextWriter, timers,
                   pending,
                   published, refreshOn,
                   retryDelays>>
    /\ Deliver
    /\ UNCHANGED singleVars
    /\ UNCHANGED standaloneVars

\* -------------------------------------------------- startPeriodicRefresh
\* The refresh callback from `visited` on: it walks the entries of `devices`
\* it has not visited yet, skips those whose link is not connected, and
\* stops at the first connected one to await its get(). <<>> when the walk
\* reaches the end of the Map.
NextPoll(visited) ==
    LET cand == { i \in 1..Len(deviceKeys) :
                    /\ deviceKeys[i] \notin visited
                    /\ links[devices[deviceKeys[i]]].st = "connected" }
    IN  IF cand = {}
        THEN << >>
        ELSE LET i0 == CHOOSE i \in cand : \A j \in cand : i <= j
             IN  << [visited |-> { deviceKeys[j] : j \in 1..i0 },
                     id |-> deviceKeys[i0],
                     link |-> devices[deviceKeys[i0]]] >>

\* The setInterval callback of startPeriodicRefresh starts a run.
RefreshTick ==
    /\ booted
    /\ refreshOn
    /\ events < MaxEvents
    /\ events' = events + 1
    /\ polls' = polls \o NextPoll({})
    /\ out' = NoOut
    /\ UNCHANGED <<booted, envSet, fileExists, fileConfig, heap, deviceData,
                   deviceWriters, nextWriter, links, devices, timers, pending,
                   removed, disabledLoaded, configured, published, deviceKeys,
                   refreshOn,
                   retryDelays>>
    /\ Deliver
    /\ UNCHANGED singleVars
    /\ UNCHANGED standaloneVars

\* catch (error) { console.log(`Error refreshing data for ${deviceId}:`, ...) }
RefreshCatch(run) ==
    /\ UNCHANGED <<heap, deviceData>>
    /\ out' = [NoOut EXCEPT !.log = << [text |-> "Error refreshing data",
                                        deviceId |-> run.id] >>]

\* The awaited device.get() of run r resolves (ok) or rejects, as it does
\* when the device does not answer in time; the loop goes on.
GetDone(r, ok) ==
    /\ r \in 1..Len(polls)
    /\ ok => links[polls[r].link].st = "connected"
    /\ polls' = SubSeq(polls, 1, r - 1) \o NextPoll(polls[r].visited)
                    \o SubSeq(polls, r + 1, Len(polls))
    /\ IF ok
       THEN /\ UNCHANGED <<heap, deviceData>>
            /\ out' = NoOut
       ELSE RefreshCatch(polls[r])
    /\ UNCHANGED <<booted, envSet, fileExists, fileConfig, deviceWriters,
                   nextWriter, links, devices, timers, pending, events,
                   removed, disabledLoaded, configured, published, deviceKeys,
                   refreshOn,
                   retryDelays>>
    /\ Deliver
    /\ UNCHANGED singleVars
    /\ UNCHANGED standaloneVars

\* ----------------------------------------------------------------- Next
Next ==
    \/ connectToAllDevices
    \/ \E i \in 1..Len(timers) : TimerFire(i)
    \/ \E l \in 1..Len(links) : ConnectSuccess(l)
    \/ \E l \in 1..Len(links) : ConnectFail(l)
    \/ \E l \in 1..Len(links), dps \in DataEvents : OnData(l, dps)
    \/ \E l \in 1..Len(links) : OnError(l)
    \/ \E l \in 1..Len(links) : OnDisconnect(l)
    \/ \E id \in Ids : WsToggle(id)
    \/ \E id \in Ids : RestToggle(id)
    \/ \E i \in 1..Len(pending), ok \in BOOLEAN : SetDone(i, ok)
    \/ \E body \in Bodies : AddDevice(body)
    \/ RefreshTick
    \/ \E r \in 1..Len(polls), ok \in BOOLEAN : GetDone(r, ok)
    \/ \E id \in Ids : RemoveDevice(id)

Spec == Init /\ [][Next]_vars

\* ===================================================================
\* The single-device server (server.js): one TuyAPI instance `device`, one
\* reading `latestDeviceData`, one flag `deviceConnected`.
\* ===================================================================
SingleMsg(type, data, connected, error) ==
    [type |-> type, data |-> data, connected |-> connected, error |-> error]

\* handleDeviceData(data) of the single-device server: the new reading.
handleDeviceDataSingle(latest, dps) ==
    LET merged ==
            [power_state |-> IF Has(dps, "1") THEN dps["1"] ELSE latest.power_state,
             current |-> IF Has(dps, "18") THEN dps["18"] ELSE latest.current,
             power |-> IF Has(dps, "19") THEN dps["19"] ELSE latest.power,
             voltage |-> IF Has(dps, "20") THEN dps["20"] ELSE latest.voltage,
             energy |-> IF Has(dps, "22") THEN dps["22"] ELSE latest.energy,
             connected |-> TRUE]
    IN  ScaleEnergy(ScalePower(ScaleVoltage(merged)))

\* The readings that n registered data handlers produce, one after the
\* other, from one data event.
RECURSIVE HandledBy(_, _, _)
HandledBy(n, latest, dps) ==
    IF n = 0
    THEN << >>
    ELSE LET first == handleDeviceDataSingle(latest, dps)
         IN  << first >> \o HandledBy(n - 1, first, dps)

Repeat(n, x) == [i \in 1..n |-> x]

\* app.listen(PORT, ...) calls back once the port is bound (the multi-device
\* server binds the same default port): connectToDevice() up to
\* `await device.find()`.
SingleListen ==
    /\ ~listening
    /\ ~booted
    /\ listening' = TRUE
    /\ connectCalls' = connectCalls + 1
    /\ sent' = NoOut
    /\ UNCHANGED <<deviceConnected, latestDeviceData, linkUp, listeners,
                   intervals, retryTimers, statusCalls, setCalls, events,
                   singleRetryDelays>>
    /\ UNCHANGED multiVars
    /\ UNCHANGED standaloneVars

\* find() and connect() resolve: the try block up to
\* `await getDeviceStatusSafe()`, which is left waiting on its race.
SingleConnectSuccess ==
    /\ connectCalls > 0
    /\ connectCalls' = connectCalls - 1
    /\ linkUp' = TRUE
    /\ deviceConnected' = TRUE
    /\ latestDeviceData' = [latestDeviceData EXCEPT !.connected = TRUE]
    /\ listeners' = listeners + 1
    /\ statusCalls' = Append(statusCalls, [from |-> "connect"])
    /\ sent' = [NoOut EXCEPT !.bcast = << SingleMsg("connection", << >>, TRUE, "") >>]
    /\ singleRetryDelays' = << >>
    /\ UNCHANGED <<listening, intervals, retryTimers, setCalls, events>>
    /\ UNCHANGED multiVars
    /\ UNCHANGED standaloneVars

\* find() or connect() rejects: the catch block.
SingleConnectFail ==
    /\ connectCalls > 0
    /\ connectCalls' = connectCalls - 1
    /\ deviceConnected' = FALSE
    /\ latestDeviceData' = [latestDeviceData EXCEPT !.connected = FALSE]
    /\ retryTimers' = Append(retryTimers, SingleConnectRetryMs)
    /\ singleRetryDelays' = Append(singleRetryDelays, retryTimers'[Len(retryTimers')])
    /\ sent' = [NoOut EXCEPT !.bcast =
                   << SingleMsg("connection", << >>, FALSE, "connect") >>]
    /\ UNCHANGED <<listening, linkUp, listeners, intervals, statusCalls,
                   setCalls, events>>
    /\ UNCHANGED multiVars
    /\ UNCHANGED standaloneVars

\* The catch block of getDeviceStatusSafe with no test of the message.
StatusCatchAnyError(message) ==
    /\ latestDeviceData' = [latestDeviceData EXCEPT !.connected = FALSE]
    /\ sent' = [NoOut EXCEPT
                   !.log = << [text |-> "Error getting device status", error |-> message] >>,
                   !.bcast = << SingleMsg("error", << >>, FALSE, message) >>]

\* The catch block of getDeviceStatusSafe: console.error, then
\* if (error.message !== "Timeout") { ... }
StatusCatch(message) ==
    IF message # "Timeout"
    THEN /\ latestDeviceData' = [latestDeviceData EXCEPT !.connected = FALSE]
         /\ sent' = [NoOut EXCEPT
                        !.log = << [text |-> "Error getting device status",
                                    error |-> message] >>,
                        !.bcast = << SingleMsg("error", << >>, FALSE, message) >>]
    ELSE /\ latestDeviceData' = latestDeviceData
         /\ sent' = [NoOut EXCEPT
                        !.log = << [text |-> "Error getting device status",
                                    error |-> message] >>]

\* How the race of a getDeviceStatusSafe call can end: device.get resolves
\* with a status, the 3 s timer rejects with "Timeout", or device.get
\* rejects with an error of its own.
StatusResults ==
    [kind : {"status"}, dps : DataEvents]
        \cup { [kind |-> "Timeout", dps |-> << >>],
                [kind |-> "get failed", dps |-> << >>] }

\* The race of getDeviceStatusSafe call i ends; when the call was the one
\* connectToDevice awaited, connectToDevice goes on to its setInterval.
StatusDone(i, result) ==
    /\ i \in 1..Len(statusCalls)
    /\ result.kind = "status" => linkUp
    /\ statusCalls' = RemoveAt(statusCalls, i)
    /\ IF result.kind = "status"
       THEN LET deviceDataNew == handleDeviceDataSingle(latestDeviceData, result.dps)
            IN  /\ latestDeviceData' = deviceDataNew
                /\ sent' = [NoOut EXCEPT
                               !.csv = << deviceDataNew >>,
                               !.bcast = << SingleMsg("data", << deviceDataNew >>,
                                                      FALSE, "") >>]
       ELSE StatusCatch(result.kind)
    /\ intervals' = IF statusCalls[i].from = "connect"
                    THEN intervals + 1
                    ELSE intervals
    /\ UNCHANGED <<listening, deviceConnected, linkUp, connectCalls, listeners,
                   retryTimers, setCalls, events,
                   singleRetryDelays>>
    /\ UNCHANGED multiVars
    /\ UNCHANGED standaloneVars

\* One setInterval callback runs: if (deviceConnected) await getDeviceStatusSafe().
IntervalTick ==
    /\ intervals > 0
    /\ events < MaxEvents
    /\ events' = events + 1
    /\ statusCalls' = IF deviceConnected
                      THEN Append(statusCalls, [from |-> "interval"])
                      ELSE statusCalls
    /\ sent' = NoOut
    /\ UNCHANGED <<listening, deviceConnected, latestDeviceData, linkUp,
                   connectCalls, listeners, intervals, retryTimers, setCalls,
                   singleRetryDelays>>
    /\ UNCHANGED multiVars
    /\ UNCHANGED standaloneVars

\* The device emits "data": every registered data handler runs
\* handleDeviceData on it.
SingleOnData(dps) ==
    /\ linkUp
    /\ listeners > 0
    /\ events < MaxEvents
    /\ events' = events + 1
    /\ LET readings == HandledBy(listeners, latestDeviceData, dps)
       IN  /\ latestDeviceData' = readings[listeners]
           /\ sent' = [NoOut EXCEPT
                          !.csv = readings,
                          !.bcast = [k \in 1..listeners |->
                                        SingleMsg("data", << readings[k] >>, FALSE, "")]]
    /\ UNCHANGED <<listening, deviceConnected, linkUp, connectCalls, listeners,
                   intervals, retryTimers, statusCalls, setCalls,
                   singleRetryDelays>>
    /\ UNCHANGED multiVars
    /\ UNCHANGED standaloneVars

\* The device emits "error": every registered error handler runs.
SingleOnError ==
    /\ linkUp
    /\ listeners > 0
    /\ deviceConnected' = FALSE
    /\ latestDeviceData' = [latestDeviceData EXCEPT !.connected = FALSE]
    /\ sent' = [NoOut EXCEPT !.bcast =
                   Repeat(listeners, SingleMsg("error", << >>, FALSE, "link"))]
    /\ UNCHANGED <<listening, linkUp, connectCalls, listeners, intervals,
                   retryTimers, statusCalls, setCalls, events,
                   singleRetryDelays>>
    /\ UNCHANGED multiVars
    /\ UNCHANGED standaloneVars

\* The device emits "disconnect": every registered disconnect handler runs
\* and sets its own reconnect timer.
SingleOnDisconnect ==
    /\ linkUp
    /\ listeners > 0
    /\ linkUp' = FALSE
    /\ deviceConnected' = FALSE
    /\ latestDeviceData' = [latestDeviceData EXCEPT !.connected = FALSE]
    /\ retryTimers' = retryTimers \o Repeat(listeners, SingleDisconnectRetryMs)
    /\ sent' = [NoOut EXCEPT !.bcast =
                   Repeat(listeners, SingleMsg("connection", << >>, FALSE, ""))]
    /\ UNCHANGED <<listening, connectCalls, listeners, intervals, statusCalls,
                   setCalls, events,
                   singleRetryDelays>>
    /\ UNCHANGED multiVars
    /\ UNCHANGED standaloneVars

\* A setTimeout(connectToDevice, ...) callback runs.
RetryFire(i) ==
    /\ i \in 1..Len(retryTimers)
    /\ \A j \in 1..(i - 1) : retryTimers[j] > retryTimers[i]
    /\ events < MaxEvents
    /\ events' = events + 1
    /\ retryTimers' = RemoveAt(retryTimers, i)
    /\ connectCalls' = connectCalls + 1
    /\ sent' = NoOut
    /\ UNCHANGED <<listening, deviceConnected, latestDeviceData, linkUp,
                   listeners, intervals, statusCalls, setCalls,
                   singleRetryDelays>>
    /\ UNCHANGED multiVars
    /\ UNCHANGED standaloneVars

\* ws.on("message") with { type: "toggle" }, up to `await device.set(...)`.
\* Nothing at all happens when deviceConnected is false.
SingleWsToggle ==
    /\ listening
    /\ events < MaxEvents
    /\ events' = events + 1
    /\ IF deviceConnected
       THEN LET newState == ~latestDeviceData.power_state
            IN  /\ setCalls' = Append(setCalls, [via |-> "ws", val |-> newState])
                /\ sent' = [NoOut EXCEPT !.set = << [dps |-> "1", set |-> newState] >>]
       ELSE /\ setCalls' = setCalls
            /\ sent' = NoOut
    /\ UNCHANGED <<listening, deviceConnected, latestDeviceData, linkUp,
                   connectCalls, listeners, intervals, retryTimers, statusCalls,
                   singleRetryDelays>>
    /\ UNCHANGED multiVars
    /\ UNCHANGED standaloneVars

\* POST /api/toggle, up to `await device.set(...)`.
SingleRestToggle ==
    /\ listening
    /\ events < MaxEvents
    /\ events' = events + 1
    /\ IF deviceConnected
       THEN LET newState == ~latestDeviceData.power_state
            IN  /\ setCalls' = Append(setCalls, [via |-> "rest", val |-> newState])
                /\ sent' = [NoOut EXCEPT !.set = << [dps |-> "1", set |-> newState] >>]
       ELSE /\ setCalls' = setCalls
            /\ sent' = [NoOut EXCEPT !.reply =
                           << [via |-> "rest", ok |-> FALSE,
                               error |-> "Device not connected",
                               new_state |-> FALSE] >>]
    /\ UNCHANGED <<listening, deviceConnected, latestDeviceData, linkUp,
                   connectCalls, listeners, intervals, retryTimers, statusCalls,
                   singleRetryDelays>>
    /\ UNCHANGED multiVars
    /\ UNCHANGED standaloneVars

\* device.set of toggle i resolves (ok) or rejects: the rest of the handler.
\* The REST handler reads latestDeviceData.power_state again for its answer.
SingleSetDone(i, ok) ==
    /\ i \in 1..Len(setCalls)
    /\ setCalls' = RemoveAt(setCalls, i)
    /\ LET call == setCalls[i]
       IN  IF call.via = "ws" /\ ok
           THEN /\ latestDeviceData' = [latestDeviceData EXCEPT !.power_state = call.val]
                /\ sent' = [NoOut EXCEPT !.bcast =
                               << SingleMsg("data", << latestDeviceData' >>, FALSE, "") >>]
           ELSE /\ latestDeviceData' = latestDeviceData
                /\ sent' = [NoOut EXCEPT !.reply =
                               << [via |-> call.via, ok |-> ok,
                                   error |-> IF ok THEN "" ELSE "set failed",
                                   new_state |-> ok /\ ~latestDeviceData.power_state] >>]
    /\ UNCHANGED <<listening, deviceConnected, linkUp, connectCalls, listeners,
                   intervals, retryTimers, statusCalls, events,
                   singleRetryDelays>>
    /\ UNCHANGED multiVars
    /\ UNCHANGED standaloneVars

\* ws.on("message") with { type: "refresh" }: await getDeviceStatusSafe().
SingleWsRefresh ==
    /\ listening
    /\ events < MaxEvents
    /\ events' = events + 1
    /\ statusCalls' = Append(statusCalls, [from |-> "refresh"])
    /\ sent' = NoOut
    /\ UNCHANGED <<listening, deviceConnected, latestDeviceData, linkUp,
                   connectCalls, listeners, intervals, retryTimers, setCalls,
                   singleRetryDelays>>
    /\ UNCHANGED multiVars
    /\ UNCHANGED standaloneVars

SingleNext ==
    \/ SingleListen
    \/ SingleConnectSuccess
    \/ SingleConnectFail
    \/ \E i \in 1..Len(statusCalls), result \in StatusResults : StatusDone(i, result)
    \/ IntervalTick
    \/ \E dps \in DataEvents : SingleOnData(dps)
    \/ SingleOnError
    \/ SingleOnDisconnect
    \/ \E i \in 1..Len(retryTimers) : RetryFire(i)
    \/ SingleWsToggle
    \/ SingleRestToggle
    \/ \E i \in 1..Len(setCalls), ok \in BOOLEAN : SingleSetDone(i, ok)
    \/ SingleWsRefresh

\* The single-device server alone, the multi-device server not started.
SingleInit == Init /\ ~fileExists /\ ~envSet

SingleSpec == SingleInit /\ [][SingleNext]_vars

\* Either server on a host whose devices.json holds one enabled device.
ServersInit == Init /\ fileExists /\ fileConfig = << Config("device_1", TRUE) >>

ServersSpec == ServersInit /\ [][Next \/ SingleNext]_vars

\* ===================================================================
\* broadcastToClients on its own (the same function in both servers).
\* ===================================================================
\* The message types the multi-device server broadcasts.
BroadcastTypes ==
    {"device_data", "device_connect", "device_disconnect", "device_error",
     "device_removed"}

\* wss.clients.forEach((client) => { if (client.readyState === WebSocket.OPEN)
\*     client.send(JSON.stringify(message)) })
broadcastToClients(message) ==
    fanout' = [message |-> << message >>,
               sentTo |-> { c \in Clients : wsClients[c] = "OPEN" }]

\* A server step passes a message to broadcastToClients.
Broadcast(message) ==
    /\ broadcastToClients(message)
    /\ UNCHANGED <<wsClients, raw, stored, events, page>>
    /\ UNCHANGED multiVars
    /\ UNCHANGED singleVars

\* wss.on("connection"): the client is in wss.clients, its socket open.
ClientConnect(c) ==
    /\ wsClients[c] = ""
    /\ wsClients' = [wsClients EXCEPT ![c] = "OPEN"]
    /\ fanout' = NoFanout
    /\ UNCHANGED <<raw, stored, events, page>>
    /\ UNCHANGED multiVars
    /\ UNCHANGED singleVars

\* The closing handshake of a client starts: it stays in wss.clients with
\* readyState CLOSING until its socket is closed.
ClientClosing(c) ==
    /\ wsClients[c] = "OPEN"
    /\ wsClients' = [wsClients EXCEPT ![c] = "CLOSING"]
    /\ fanout' = NoFanout
    /\ UNCHANGED <<raw, stored, events, page>>
    /\ UNCHANGED multiVars
    /\ UNCHANGED singleVars

\* The socket of a client is closed: the ws library takes it out of
\* wss.clients.
ClientClosed(c) ==
    /\ wsClients[c] # ""
    /\ wsClients' = [wsClients EXCEPT ![c] = ""]
    /\ fanout' = NoFanout
    /\ UNCHANGED <<raw, stored, events, page>>
    /\ UNCHANGED multiVars
    /\ UNCHANGED singleVars

FanoutNext ==
    \/ \E message \in BroadcastTypes : Broadcast(message)
    \/ \E c \in Clients : ClientConnect(c)
    \/ \E c \in Clients : ClientClosing(c)
    \/ \E c \in Clients : ClientClosed(c)

FanoutInit == Init /\ ~fileExists /\ ~envSet

FanoutSpec == FanoutInit /\ [][FanoutNext]_vars


\* ------------------------------------------ handleDeviceData on its own
\* The raw values of the data events examined: each of the points 19, 20
\* and 22 is a number, point 1 a boolean, point 18 may be absent.
RawValues == {0, 7, 120, 1500}

RawStatuses ==
    { ("1" :> b) @@ ("19" :> Num(p)) @@ ("20" :> Num(v)) @@ ("22" :> Num(w)) @@ c :
        b \in BOOLEAN, p \in RawValues, v \in RawValues, w \in RawValues,
        c \in { << >>, ("18" :> Num(20000)) } }

ScaleInit ==
    /\ ProgramInit
    /\ ~fileExists
    /\ ~envSet
    /\ raw \in { << dps >> : dps \in RawStatuses }
    /\ stored = << >>

\* handleDeviceData on the reading initializeDeviceData has just made
HandleFresh ==
    /\ stored = << >>
    /\ stored' = << handleDeviceData(
                       initializeDeviceData(Config("device_1", TRUE)), raw[1]) >>
    /\ UNCHANGED <<wsClients, fanout, raw, events, page>>
    /\ UNCHANGED multiVars
    /\ UNCHANGED singleVars

ScaleNext == HandleFresh

ScaleSpec == ScaleInit /\ [][ScaleNext]_vars

\* ------------------------------------- startup with two enabled devices
StaggerInit ==
    /\ InitFrom(StaggerFiles)
    /\ fileExists
    /\ raw = << >>
    /\ stored = << >>

StaggerSpec == StaggerInit /\ [][Next]_vars

\* -------------------------------------- calculateBillingCost on its own
\* The largest energy reading examined, in kWh.
MaxKWh == 700

\* ELECTRICITY_TARIFF, the rates in hundredths of a Taka; the last tier's
\* max is Infinity.
ELECTRICITY_TARIFF ==
    << [min |-> 0, max |-> 75, rate |-> 462, unbounded |-> FALSE],
       [min |-> 76, max |-> 200, rate |-> 631, unbounded |-> FALSE],
       [min |-> 201, max |-> 300, rate |-> 662, unbounded |-> FALSE],
       [min |-> 301, max |-> 400, rate |-> 699, unbounded |-> FALSE],
       [min |-> 401, max |-> 600, rate |-> 1096, unbounded |-> FALSE],
       [min |-> 601, max |-> 0, rate |-> 1263, unbounded |-> TRUE] >>

MathMin(a, b) == IF a <= b THEN a ELSE b

\* Math.min(x, tier.max - tier.min + 1)
MinWithCapacity(x, tier) ==
    IF tier.unbounded THEN x ELSE MathMin(x, tier.max - tier.min + 1)

\* actualEnergyInTier without the special case of the first tier
ActualEnergyInTierUncapped(tier, energyInThisTier) ==
    MinWithCapacity(energyInThisTier, tier)

ActualEnergyInTier(tier, energyInThisTier) ==
    IF tier.min = 0
    THEN MathMin(energyInThisTier, 75)
    ELSE MinWithCapacity(energyInThisTier, tier)

\* The loop over the tiers, from tier i on.
RECURSIVE BillFrom(_, _, _)
BillFrom(i, remainingEnergy, totalCost) ==
    IF i > Len(ELECTRICITY_TARIFF) \/ remainingEnergy <= 0
    THEN totalCost
    ELSE LET tier == ELECTRICITY_TARIFF[i]
             energyInThisTier == MinWithCapacity(remainingEnergy, tier)
             actualEnergyInTier == ActualEnergyInTier(tier, energyInThisTier)
             cost == totalCost + actualEnergyInTier * tier.rate
             rest == remainingEnergy - actualEnergyInTier
         IN  IF rest <= 0 \/ tier.unbounded
             THEN cost
             ELSE BillFrom(i + 1, rest, cost)

\* The cost in hundredths of a Taka.
calculateBillingCost(energyKWh) ==
    IF energyKWh = 0 \/ energyKWh <= 0 THEN 0 ELSE BillFrom(1, energyKWh, 0)

\* Two whole numbers of kWh, the second no smaller than the first.
BillInit ==
    /\ ProgramInit
    /\ ~fileExists
    /\ ~envSet
    /\ raw \in { << a, a + d >> : a \in (0 - 2)..MaxKWh, d \in {0, 1, 100} }
    /\ stored = << >>

Bill ==
    /\ stored = << >>
    /\ stored' = << calculateBillingCost(raw[1]), calculateBillingCost(raw[2]) >>
    /\ UNCHANGED <<wsClients, fanout, raw, events, page>>
    /\ UNCHANGED multiVars
    /\ UNCHANGED singleVars

BillNext == Bill

BillSpec == BillInit /\ [][BillNext]_vars

\* ------------------------------------ the current scaling on its own
\* Raw values of point 18 on either side of the scaling threshold.
CurrentValues == 995..1010

\* Two data events that differ in point 18 only, the first no larger.
CurrentInit ==
    /\ ProgramInit
    /\ ~fileExists
    /\ ~envSet
    /\ raw \in { << ("18" :> Num(a)), ("18" :> Num(b)) >> :
                    a \in CurrentValues, b \in CurrentValues }
    /\ raw[1]["18"].n <= raw[2]["18"].n
    /\ stored = << >>

\* handleDeviceData on the same reading for either event
HandleBoth ==
    /\ stored = << >>
    /\ LET currentData == initializeDeviceData(Config("device_1", TRUE))
       IN  stored' = << handleDeviceData(currentData, raw[1]),
                        handleDeviceData(currentData, raw[2]) >>
    /\ UNCHANGED <<wsClients, fanout, raw, events, page>>
    /\ UNCHANGED multiVars
    /\ UNCHANGED singleVars

CurrentNext == HandleBoth

CurrentSpec == CurrentInit /\ [][CurrentNext]_vars

\* ------------------------------------- the server with a dashboard page
\* wss.on("connection") without the initial_data message
ConnectionNoInitialData(allDevicesData) ==
    dash' = [dash EXCEPT !.open = TRUE]

\* wss.on("connection"): ws.send of initial_data, which the page handles.
Connection(allDevicesData) ==
    LET message == [type |-> "initial_data", deviceId |-> "",
                    data |-> allDevicesData, error |-> ""]
    IN  dash' = [open |-> TRUE, first |-> << message >>,
                 devices |-> onmessage(dash.devices, message)]

\* The page's socket connects: the server adds it to wss.clients and runs
\* its connection handler.
DashConnect ==
    /\ booted
    /\ ~dash.open
    /\ Connection([i \in 1..Len(deviceData) |-> heap[deviceData[i][2]]])
    /\ out' = NoOut
    /\ UNCHANGED <<booted, envSet, fileExists, fileConfig, heap, deviceData,
                   deviceWriters, nextWriter, links, devices, timers, pending,
                   events, removed, disabledLoaded, configured, published,
                   deviceKeys, refreshOn, polls, retryDelays>>
    /\ UNCHANGED singleVars
    /\ UNCHANGED standaloneVars

DashNext == Next \/ DashConnect

DashInit ==
    /\ Init
    /\ fileExists
    /\ fileConfig = << Config("device_1", TRUE) >>

DashSpec == DashInit /\ [][DashNext]_vars

\* ------------------------------------------ the page's handler on its own
\* Readings as the server sends them for device id.
PageReadings(id) ==
    { [initializeDeviceData(Config(id, TRUE)) EXCEPT
          !.connected = c, !.power_state = p, !.current = Num(i)] :
        c \in BOOLEAN, p \in BOOLEAN, i \in {0, 500} }

\* The device lists of an initial_data message: Array.from of a Map's
\* values, so no id twice.
InitialLists ==
    { << >> }
      \cup { << r >> : r \in UNION { PageReadings(id) : id \in Ids } }
      \cup { << r, s >> : r \in PageReadings("device_1"), s \in PageReadings("device_2") }
      \cup { << s, r >> : r \in PageReadings("device_1"), s \in PageReadings("device_2") }

\* The broadcasts of the server: a device_data carries the reading of the
\* device it names.
PageMessages ==
    UNION { { Msg("device_data", id, << r >>, "") : r \in PageReadings(id) } :
              id \in Ids }
      \cup { Msg(type, id, << >>, "") :
                type \in {"device_connect", "device_disconnect", "device_removed",
                          "device_error"},
                id \in Ids }

PageInit ==
    /\ InitFrom(StartupFiles)
    /\ ~fileExists
    /\ ~envSet
    /\ raw = << >>
    /\ stored = << >>

\* The socket opens and initial_data arrives.
PageOpen(data) ==
    /\ ~dash.open
    /\ LET message == [type |-> "initial_data", deviceId |-> "",
                       data |-> data, error |-> ""]
       IN  dash' = [open |-> TRUE, first |-> << message >>,
                    devices |-> onmessage(dash.devices, message)]
    /\ UNCHANGED <<booted, envSet, fileExists, fileConfig, heap, deviceData,
                   deviceWriters, nextWriter, links, devices, timers, pending,
                   events, removed, disabledLoaded, configured, published,
                   deviceKeys, refreshOn, polls, out, retryDelays>>
    /\ UNCHANGED singleVars
    /\ UNCHANGED standaloneVars

\* websocket.onmessage with one broadcast of the server.
PageMessage(message) ==
    /\ dash.open
    /\ dash' = [dash EXCEPT !.devices = onmessage(@, message)]
    /\ UNCHANGED <<booted, envSet, fileExists, fileConfig, heap, deviceData,
                   deviceWriters, nextWriter, links, devices, timers, pending,
                   events, removed, disabledLoaded, configured, published,
                   deviceKeys, refreshOn, polls, out, retryDelays>>
    /\ UNCHANGED singleVars
    /\ UNCHANGED standaloneVars

PageNext ==
    \/ \E data \in InitialLists : PageOpen(data)
    \/ \E message \in PageMessages : PageMessage(message)

PageSpec == PageInit /\ [][PageNext]_vars

\* --------------------------------------- the dashboard's reconnect loop
\* The largest number of sockets the dashboard makes in a run.
MaxSockets == 30

\* useEffect(() => { connectWebSocket(); ... }, [connectWebSocket]): the
\* effect runs once, connectWebSocket never changes.
Mount ==
    /\ ~page.mounted
    /\ page' = [connectWebSocket(page) EXCEPT !.mounted = TRUE]
    /\ UNCHANGED <<wsClients, fanout, raw, stored, events>>
    /\ UNCHANGED multiVars
    /\ UNCHANGED singleVars

\* websocket.onopen: setConnecting(false)
SocketOpen(i) ==
    /\ i \in 1..Len(page.sockets)
    /\ page.sockets[i] = "CONNECTING"
    /\ page' = [page EXCEPT !.sockets[i] = "OPEN", !.connecting = FALSE]
    /\ UNCHANGED <<wsClients, fanout, raw, stored, events>>
    /\ UNCHANGED multiVars
    /\ UNCHANGED singleVars

\* The closing handshake of an open socket starts.
SocketClosing(i) ==
    /\ i \in 1..Len(page.sockets)
    /\ page.sockets[i] = "OPEN"
    /\ page' = [page EXCEPT !.sockets[i] = "CLOSING"]
    /\ UNCHANGED <<wsClients, fanout, raw, stored, events>>
    /\ UNCHANGED multiVars
    /\ UNCHANGED singleVars

\* The socket is closed, or the attempt to connect it has failed: the
\* close event. (onerror only logs.)
SocketClose(i) ==
    /\ i \in 1..Len(page.sockets)
    /\ page.sockets[i] # "CLOSED"
    /\ page' = onclose([page EXCEPT !.sockets[i] = "CLOSED"])
    /\ UNCHANGED <<wsClients, fanout, raw, stored, events>>
    /\ UNCHANGED multiVars
    /\ UNCHANGED singleVars

\* A setTimeout(connectWebSocket, 3000) callback runs.
ReconnectFire ==
    /\ page.timers > 0
    /\ Len(page.sockets) < MaxSockets
    /\ page' = connectWebSocket([page EXCEPT !.timers = @ - 1])
    /\ UNCHANGED <<wsClients, fanout, raw, stored, events>>
    /\ UNCHANGED multiVars
    /\ UNCHANGED singleVars

ReconnectNext ==
    \/ Mount
    \/ \E i \in 1..Len(page.sockets) : SocketOpen(i)
    \/ \E i \in 1..Len(page.sockets) : SocketClosing(i)
    \/ \E i \in 1..Len(page.sockets) : SocketClose(i)
    \/ ReconnectFire

ReconnectInit ==
    /\ Init
    /\ ~fileExists
    /\ ~envSet

\* A timer that is due runs: the page stays loaded.
ReconnectSpec ==
    ReconnectInit /\ [][ReconnectNext]_vars /\ WF_vars(ReconnectFire)

\* ======================================================== the claims
LinksOf(id) == { l \in 1..Len(links) : links[l].id = id }
TimersOf(id) == { i \in 1..Len(timers) : timers[i].id = id }
Connecting(id) == \E l \in LinksOf(id) : links[l].st = "connecting"

\* C1 (busy serialization): at no time are two device.set calls in flight
\* for the same device; a second toggle that arrives while the first one's
\* set is pending is rejected instead of reaching the link.
C1_BusySerialization ==
    \A id \in Ids : Cardinality(SetsInFlight(id)) <= 1

\* C2 (disconnection preserves last metrics): when the current link of a
\* device with a connected reading reports a disconnect or an error, the
\* reading in deviceData keeps the values it had just before the event and
\* only its connected field changes, to false.
C2_DisconnectPreservesMetrics ==
    [][\A l \in 1..Len(links), id \in Ids :
          ( /\ OnDisconnect(l) \/ OnError(l)
            /\ links[l].st = "connected"
            /\ links[l].id = id
            /\ devices[id] = l
            /\ HasReading(id)
            /\ Reading(id).connected )
          => ( /\ MapHas(deviceData', id)
               /\ Reading(id)' = [Reading(id) EXCEPT !.connected = FALSE] )]_vars

\* The field of a reading that a DPS point feeds.
FieldOf(r, point) ==
    CASE point = "1" -> r.power_state
      [] point = "18" -> r.current
      [] point = "19" -> r.power
      [] point = "20" -> r.voltage
      [] point = "22" -> r.energy

KnownPoints == {"1", "18", "19", "20", "22"}

\* C3 (normalization carry-forward): a data event leaves every field whose
\* point is absent from the event's DPS map equal to that field of the
\* previous reading.
C3_CarryForward ==
    [][\A l \in 1..Len(links), dps \in DataEvents, id \in Ids :
          (OnData(l, dps) /\ links[l].id = id /\ HasReading(id))
          => \A point \in KnownPoints \ DOMAIN dps :
                 FieldOf(Reading(id)', point) = FieldOf(Reading(id), point)]_vars

\* C4 (remove cancels retries): while an id is removed and not added again,
\* no connect attempt is started for it and no link for it is put into the
\* devices map.
C4_RemoveCancelsRetries ==
    [][\A id \in removed \cap removed' :
          /\ devices'[id] = NoLink
          /\ LinksOf(id)' = LinksOf(id)]_vars

\* C5 (remove discards the reading): while an id is removed and not added
\* again, deviceData holds no reading for it and devices.json no config.
C5_RemoveDiscardsReading ==
    \A id \in removed : ~HasReading(id) /\ ~FileHasId(id)

\* C6 (duplicate id rejected): POST /api/devices with the id of a device
\* that has a reading in the running server is rejected with the
\* duplicate-id error, changes none of deviceData, devices, the CSV writers
\* and devices.json, and starts no connect attempt.
C6_DuplicateIdRejected ==
    [][\A body \in Bodies :
          (AddDevice(body) /\ ~MissingRequiredFields(body) /\ HasReading(body.id))
          => ( /\ out'.reply = << Reply("add", FALSE, "Device ID already exists") >>
               /\ UNCHANGED <<heap, deviceData, devices, deviceWriters,
                              nextWriter, fileExists, fileConfig, links>> )]_vars

\* C7 (disabled device never connects): for a device loaded at startup with
\* enabled=false and not removed since, no connect attempt was ever started
\* or is scheduled, devices holds no link for it, and its reading exists
\* with connected=false.
C7_DisabledNeverConnects ==
    \A id \in disabledLoaded :
        /\ LinksOf(id) = {}
        /\ TimersOf(id) = {}
        /\ devices[id] = NoLink
        /\ HasReading(id)
        /\ ~Reading(id).connected

\* C7 witness: a disabled device sits next to a device whose startup
\* connect has succeeded, and the server has handled its event budget.
C7_Witness ==
    /\ disabledLoaded # {}
    /\ events = MaxEvents
    /\ \E l \in 1..Len(links) : links[l].st = "connected"

\* C8 (every successful toggle updates the reading): when the set call of
\* a toggle, made through either entry point, succeeds for a device whose
\* reading is connected, the reading's power_state equals the value sent
\* and a device_data message carrying that reading is broadcast.
C8_SuccessfulToggleUpdatesReading ==
    [][\A i \in 1..Len(pending), id \in Ids, val \in BOOLEAN :
          ( /\ SetDone(i, TRUE)
            /\ pending[i].id = id
            /\ pending[i].val = val
            /\ HasReading(id)
            /\ Reading(id).connected )
          => ( /\ MapHas(deviceData', id)
               /\ Reading(id)'.power_state = val
               /\ out'.bcast = << Msg("device_data", id, << Reading(id)' >>, "") >> )]_vars

\* C9 (optimistic toggle ordering): a toggle of a connected device whose
\* reading has power_state=false issues exactly one set command, with the
\* value true, and the reading's power_state is already true when that set
\* call completes.
C9_OptimisticToggleOrdering ==
    [][ /\ \A id \in Ids :
              ( /\ WsToggle(id)
                /\ CanToggle(id)
                /\ ~Reading(id).power_state )
              => out'.set = << [link |-> devices[id], dps |-> "1", set |-> TRUE] >>
        /\ \A i \in 1..Len(pending), ok \in BOOLEAN :
              ( /\ SetDone(i, ok)
                /\ pending[i].via = "ws"
                /\ pending[i].val
                /\ Cardinality(SetsInFlight(pending[i].id)) = 1
                /\ HasReading(pending[i].id) )
              => Reading(pending[i].id).power_state ]_vars

\* C10 (recovery after link loss): when the current link of a device with
\* a connected reading reports a disconnect or an error, the reading's
\* connected field becomes false and the retry loop is armed, so that a new
\* connect attempt follows without a request: a reconnect timer is pending
\* or a connect attempt is in progress for the device.
C10_RecoveryAfterLinkLoss ==
    [][\A l \in 1..Len(links), id \in Ids :
          ( /\ OnDisconnect(l) \/ OnError(l)
            /\ links[l].st = "connected"
            /\ links[l].id = id
            /\ devices[id] = l
            /\ HasReading(id)
            /\ Reading(id).connected )
          => ( /\ MapHas(deviceData', id)
               /\ ~Reading(id)'.connected
               /\ (TimersOf(id)' # {} \/ Connecting(id)') )]_vars

\* ------------------------------------------------------------------ C11
NotConnectedReply(via) ==
    [via |-> via, ok |-> FALSE, error |-> "Device not connected", new_state |-> FALSE]

\* C11: a toggle request (WebSocket or REST) for a device whose reading has
\* connected = FALSE answers the requester with "Device not connected",
\* calls device.set on no link and leaves deviceData (and the readings it
\* refers to) unchanged.
C11_NotConnectedToggleRejected ==
    [][\A id \in Ids :
         (HasReading(id) /\ ~Reading(id).connected)
            => /\ WsToggle(id) =>
                    /\ out'.reply = << NotConnectedReply("ws") >>
                    /\ out'.set = <<>>
                    /\ UNCHANGED <<deviceData, heap, pending>>
               /\ RestToggle(id) =>
                    /\ out'.reply = << NotConnectedReply("rest") >>
                    /\ out'.set = <<>>
                    /\ UNCHANGED <<deviceData, heap, pending>>]_vars

\* A toggle has just been refused for a device that has a link object in
\* `devices` and a reading that says connected = FALSE.
C11_Witness ==
    \E id \in Ids :
        /\ HasReading(id)
        /\ ~Reading(id).connected
        /\ devices[id] # NoLink
        /\ \E via \in {"ws", "rest"} : out.reply = << NotConnectedReply(via) >>

\* ------------------------------------------------------------------ C12
\* C12: DELETE /api/devices/:deviceId and a toggle for an id that has no
\* reading in deviceData are refused with an error result, change neither
\* the in-memory state nor devices.json, and broadcast nothing.
C12_UnknownIdRejected ==
    [][\A id \in Ids :
         (~HasReading(id) /\ (RemoveDevice(id) \/ WsToggle(id) \/ RestToggle(id)))
            => /\ Len(out'.reply) = 1
               /\ ~out'.reply[1].ok
               /\ out'.bcast = <<>>
               /\ UNCHANGED <<heap, deviceData, deviceWriters, links, devices,
                              timers, pending, fileExists, fileConfig>>]_vars

\* ------------------------------------------------------------------ C13
\* C13: POST /api/devices with a body in which id, device_id, device_key or
\* device_ip is missing or empty answers with an error and leaves
\* devices.json, deviceData, deviceWriters and devices unchanged and starts
\* no connect attempt.
C13_InvalidConfigRejected ==
    [][\A body \in Bodies :
         (AddDevice(body) /\ "" \in {body.id, body.device_id, body.device_key,
                                     body.device_ip})
            => /\ out'.reply = << Reply("add", FALSE, "Missing required fields") >>
               /\ UNCHANGED <<fileExists, fileConfig, heap, deviceData,
                              deviceWriters, nextWriter, devices, links,
                              timers>>]_vars

\* A POST /api/devices has just been refused by the validation.
C13_Witness ==
    /\ out.reply = << Reply("add", FALSE, "Missing required fields") >>
    /\ booted
    /\ events > 0

\* ------------------------------------------------------------------ C14
\* C14: POST /api/devices with all required fields and an id that is neither
\* in devices.json nor in deviceData appends the config to devices.json with
\* enabled = TRUE, creates a reading for the id with connected = FALSE and
\* zeroed metrics, creates its CSV writer and starts exactly one connect
\* attempt for it.
C14_SuccessfulAdd ==
    [][\A body \in Bodies :
         (/\ AddDevice(body)
          /\ "" \notin {body.id, body.device_id, body.device_key, body.device_ip}
          /\ ~HasReading(body.id)
          /\ ~FileHasId(body.id))
            => /\ fileExists'
               /\ fileConfig' = Append(fileConfig, [id |-> body.id, enabled |-> TRUE])
               /\ HasReading(body.id)'
               /\ Reading(body.id)'.id = body.id
               /\ ~Reading(body.id)'.connected
               /\ ~Reading(body.id)'.power_state
               /\ \A f \in {"current", "power", "voltage", "energy"} :
                     Reading(body.id)'[f] = [num |-> TRUE, n |-> 0, k |-> 0]
               /\ ~MapHas(deviceWriters, body.id)
               /\ MapHas(deviceWriters', body.id)
               /\ Len(links') = Len(links) + 1
               /\ LinksOf(body.id)' = LinksOf(body.id) \cup {Len(links')}
               /\ links'[Len(links')].st = "connecting"
               /\ \A l \in 1..Len(links) : links'[l] = links[l]
               /\ out'.reply = << Reply("add", TRUE, "") >>]_vars

\* A device that the loaded configuration did not hold has just been added:
\* it has a fresh reading, a writer and a connect attempt in progress.
C14_Witness ==
    /\ out.reply = << Reply("add", TRUE, "") >>
    /\ FileHasId("device_2")
    /\ HasReading("device_2")
    /\ Connecting("device_2")
    /\ Len(fileConfig) = 2

C16_PollTimeoutNotDisconnect ==
    [][/\ \A i \in 1..Len(statusCalls) :
            StatusDone(i, [kind |-> "Timeout", dps |-> << >>])
               => /\ deviceConnected' = deviceConnected
                  /\ latestDeviceData'.connected = latestDeviceData.connected
                  /\ sent'.bcast = << >>
                  /\ UNCHANGED <<retryTimers, connectCalls, linkUp>>
       /\ \A r \in 1..Len(polls) :
            GetDone(r, FALSE)
               => /\ UNCHANGED <<heap, deviceData, devices, links, timers>>
                  /\ out'.bcast = << >>]_vars

\* The refresh callback of the multi-device server has just had its awaited
\* get rejected on a device whose link is connected, and the reading still
\* says connected.
C16_Witness ==
    \E id \in Ids :
        /\ out.log = << [text |-> "Error refreshing data", deviceId |-> id] >>
        /\ HasReading(id)
        /\ Reading(id).connected
        /\ devices[id] # NoLink
        /\ links[devices[id]].st = "connected"

\* ------------------------------------------------------------------ C17
\* Array.from(deviceData.values()): what GET /api/devices answers and what
\* the initial_data message carries.
Snapshot == [i \in 1..Len(deviceData) |-> heap[deviceData[i][2]]]

\* C17: once the server has started, the snapshot holds exactly one reading
\* per device config (enabled or not), in the order of the loaded configs
\* followed by the devices added later.
C17_SnapshotCoversConfigs ==
    booted => [i \in 1..Len(Snapshot) |-> Snapshot[i].id] = configured

\* ------------------------------------------------------------------ C18
\* C18: for any one device, the device_data messages reach the clients in the
\* order of the data events they come from: a device_data broadcast never
\* carries a reading older than one that a data event of the same device has
\* already published. Readings are numbered in heap by creation; a data
\* event always broadcasts the reading it has just created, so the property
\* is stated for the other broadcaster of device_data, the toggle handler.
C18_PublicationOrder ==
    [][\A i \in 1..Len(pending), ok \in BOOLEAN, id \in Ids :
         (/\ SetDone(i, ok)
          /\ pending[i].id = id
          /\ \E k \in 1..Len(out'.bcast) : out'.bcast[k].type = "device_data")
            => pending[i].cd >= published[id]]_vars

\* ------------------------------------------------------------------ C19
\* C19: every reading broadcast to the clients as a device_data message, the
\* one broadcast after a successful toggle included, is handed exactly once
\* to the CSV writer of its device in the same step (the write is started,
\* not awaited).
C19_PersistenceReceivesPublished ==
    \A k \in 1..Len(out.bcast) :
        out.bcast[k].type = "device_data"
           => /\ Len(out.csv) = 1
              /\ out.csv[1].record = out.bcast[k].data[1]
              /\ out.csv[1].writer # NoWriter
              /\ out.csv[1].writer =
                    MapGet(deviceWriters, out.bcast[k].deviceId, NoWriter)

\* ------------------------------------------------------------------ C20
\* C20: when the set call of a toggle completes after its device was removed
\* by DELETE /api/devices/:deviceId, the result is discarded: no reading for
\* the removed id is written into deviceData and no device_data message for
\* it is broadcast.
C20_InFlightResultDiscarded ==
    [][\A i \in 1..Len(pending), ok \in BOOLEAN, id \in removed :
         (SetDone(i, ok) /\ pending[i].id = id /\ ~HasReading(id))
            => /\ ~HasReading(id)'
               /\ \A k \in 1..Len(out'.bcast) :
                     ~(out'.bcast[k].type = "device_data" /\ out'.bcast[k].deviceId = id)]_vars

\* ------------------------------------------------------------------ C21
\* C21: every message passed to broadcastToClients is sent to every client
\* that is in wss.clients at that moment, whatever its readyState.
C21_AtLeastOnceFanout ==
    fanout.message # << >>
       => \A c \in Clients : wsClients[c] # "" => c \in fanout.sentTo


\* v is the number m / 10^e
IsQuotient(v, m, e) == v.num /\ v.n * Pow10(e) = m * Pow10(v.k)

\* C22: a data event on a freshly initialised reading that carries numbers
\* for points 19, 20, 22 and a boolean for point 1 stores power = raw19 / 10,
\* voltage = raw20 / 10, energy = raw22 / 1000 and power_state = raw1.
C22_UnitScaling ==
    stored # << >>
       => /\ IsQuotient(stored[1].power, raw[1]["19"].n, 1)
          /\ IsQuotient(stored[1].voltage, raw[1]["20"].n, 1)
          /\ IsQuotient(stored[1].energy, raw[1]["22"].n, 3)
          /\ stored[1].power_state = raw[1]["1"]

C22_Witness ==
    /\ stored # << >>
    /\ raw[1]["19"] = Num(120)
    /\ raw[1]["20"] = Num(7)
    /\ raw[1]["22"] = Num(1500)
    /\ raw[1]["1"] = TRUE
    /\ stored[1].power = Num(12)
    /\ stored[1].energy = [num |-> TRUE, n |-> 15, k |-> 1]


\* the delays form a non-decreasing sequence within [5 s, 30 s]
BoundedNonDecreasing(delays) ==
    \A i \in 1..Len(delays) :
        /\ delays[i] >= 5000
        /\ delays[i] <= 30000
        /\ i > 1 => delays[i - 1] <= delays[i]

\* C23: for any number of consecutive connect failures of one device, the
\* retry delays they schedule are non-decreasing, at least 5 s each and at
\* most 30 s each.
C23_RetryBounded ==
    /\ \A id \in Ids : BoundedNonDecreasing(retryDelays[id])
    /\ BoundedNonDecreasing(singleRetryDelays)

C23_Witness ==
    /\ Len(retryDelays["device_1"]) >= 2
    /\ \E i \in 1..Len(timers) :
          timers[i] = [id |-> "device_1", delay |-> ConnectRetryMs]


\* the runs of the refresh callback that wait on a get of device id
PollsOf(id) == { r \in 1..Len(polls) : polls[r].id = id }

\* C24: for any one device at most one periodic status get is in flight at
\* any time.
C24_PollsDoNotOverlap ==
    \A id \in Ids : Cardinality(PollsOf(id)) <= 1


\* the devices whose current link is connected
ConnectedDevices ==
    { id \in Ids : devices[id] # NoLink /\ links[devices[id]].st = "connected" }

\* C25: a tick of the refresh interval issues a get to every device whose
\* link is connected, whether or not the get of another device completes.
C25_PolledIndependently ==
    [][ RefreshTick =>
            \A id \in ConnectedDevices :
                \E r \in 1..Len(polls') : polls'[r].id = id ]_vars


\* a timer the startup loop has set: its delay is a multiple of 2 s below
\* the number of devices
IsStartupTimer(t) == \E k \in 0..(Cardinality(Ids) - 1) : t.delay = k * 2000

\* C26: at startup the k-th enabled device (from 0) gets its first connect
\* attempt k x 2 s after startup, so that no two of these attempts start at
\* the same instant, and the attempts start in config order.
C26_StaggeredStartup ==
    [][ /\ connectToAllDevices =>
            LET enabled == SelectSeq(fileConfig, LAMBDA c : c.enabled)
            IN  /\ Len(timers') = Len(enabled)
                /\ \A k \in 0..(Len(enabled) - 1) :
                      timers'[k + 1] = [id |-> enabled[k + 1].id, delay |-> k * 2000]
                /\ \A j, k \in 1..Len(timers') :
                      j # k => timers'[j].delay # timers'[k].delay
        /\ \A i \in 1..Len(timers) :
              ( /\ timers' = RemoveAt(timers, i)
                /\ IsStartupTimer(timers[i]) )
                 => \A j \in 1..(i - 1) : ~IsStartupTimer(timers[j]) ]_vars

\* both startup timers have fired, the earlier device's first
C26_Witness ==
    /\ fileConfig = << Config("device_2", TRUE), Config("device_1", TRUE) >>
    /\ Len(links) = 2
    /\ links[1].id = "device_2"
    /\ links[2].id = "device_1"
    /\ timers = << >>


\* C27: in the single-device server at most one set of link handlers (data,
\* error, disconnect) and at most one polling interval are registered, after
\* any number of disconnect/reconnect cycles.
C27_NoHandlerAccumulation ==
    /\ listeners <= 1
    /\ intervals <= 1


\* the connect attempts in progress for device id
AttemptsOf(id) == { l \in LinksOf(id) : links[l].st = "connecting" }

\* C28: for every device id the connect attempts in progress plus the
\* pending reconnect timers number at most one.
C28_OneConnectionLoop ==
    \A id \in Ids :
        Cardinality(AttemptsOf(id)) + Cardinality(TimersOf(id)) <= 1


\* C29: a reading's connected field is true only while the device's link is
\* connected.
C29_ConnectedFlagTruthful ==
    \A id \in Ids :
        (HasReading(id) /\ Reading(id).connected)
           => /\ devices[id] # NoLink
              /\ links[devices[id]].st = "connected"


\* C30: in the single-device server the control flag deviceConnected equals
\* latestDeviceData.connected after every event handler.
C30_SingleFlagsAgree ==
    deviceConnected = latestDeviceData.connected


\* C31: when POST /api/toggle of the single-device server succeeds, the
\* new_state of its response is the value that was passed to device.set.
C31_RestToggleReportsSent ==
    [][ ( /\ Len(setCalls') = Len(setCalls) - 1
          /\ sent'.reply # << >>
          /\ sent'.reply[1].via = "rest"
          /\ sent'.reply[1].ok )
          => \E j \in 1..Len(setCalls) :
                /\ setCalls' = RemoveAt(setCalls, j)
                /\ setCalls[j].via = "rest"
                /\ sent'.reply[1].new_state = setCalls[j].val ]_vars


\* the kWh of E that fall between lo (exclusive) and hi (inclusive)
KWhWithin(E, lo, hi) ==
    IF E <= lo THEN 0 ELSE IF E >= hi THEN hi - lo ELSE E - lo

\* the tariff table applied to E kWh, in hundredths of a Taka
TariffCost(E) ==
    462 * KWhWithin(E, 0, 75) + 631 * KWhWithin(E, 75, 200)
        + 662 * KWhWithin(E, 200, 300) + 699 * KWhWithin(E, 300, 400)
        + 1096 * KWhWithin(E, 400, 600) + 1263 * (IF E > 600 THEN E - 600 ELSE 0)

\* C38: calculateBillingCost(E) is 0 for E <= 0 and otherwise the sum over
\* the tiers (the first 75 kWh, the next 125, 100, 100, 200 kWh, the rest)
\* of rate x kWh in the tier; it is non-decreasing in E.
C38_ProgressiveBilling ==
    stored # << >>
       => /\ \A i \in 1..2 :
                stored[i] = IF raw[i] <= 0 THEN 0 ELSE TariffCost(raw[i])
          /\ stored[1] <= stored[2]

C38_Witness ==
    /\ stored # << >>
    /\ raw = << 650, 651 >>
    /\ stored[1] = 462 * 75 + 631 * 125 + 662 * 100 + 699 * 100 + 1096 * 200 + 1263 * 50
    /\ stored[2] = stored[1] + 1263


\* v <= w, for numbers n / 10^k
NumLeq(v, w) == v.n * Pow10(w.k) <= w.n * Pow10(v.k)

\* C37: for raw values a <= b of point 18 on otherwise identical readings
\* the current stored for a is at most the current stored for b.
C37_CurrentMonotone ==
    stored # << >> => NumLeq(stored[1].current, stored[2].current)


\* a data event, connect result, error, disconnect, toggle or remove for
\* device d
OperationOn(d) ==
    \/ \E l \in 1..Len(links) :
          /\ links[l].id = d
          /\ \/ \E dps \in DataEvents : OnData(l, dps)
             \/ ConnectSuccess(l)
             \/ ConnectFail(l)
             \/ OnError(l)
             \/ OnDisconnect(l)
    \/ WsToggle(d)
    \/ RestToggle(d)
    \/ \E i \in 1..Len(pending), ok \in BOOLEAN :
          pending[i].id = d /\ SetDone(i, ok)
    \/ RemoveDevice(d)

\* the reading, the link and the CSV writer of device o are as before
Untouched(o) ==
    /\ MapHas(deviceData', o) = MapHas(deviceData, o)
    /\ MapHas(deviceData, o)
          => heap'[MapGet(deviceData', o, NoRef)] = heap[MapGet(deviceData, o, NoRef)]
    /\ devices'[o] = devices[o]
    /\ devices[o] # NoLink => links'[devices[o]] = links[devices[o]]
    /\ MapGet(deviceWriters', o, NoWriter) = MapGet(deviceWriters, o, NoWriter)

\* C33: an operation on device d leaves the reading, the link and the CSV
\* writer of every other device unchanged.
C33_OtherDevicesUntouched ==
    [][ \A d \in Ids :
            (\A o \in Ids \ {d} : Untouched(o)) \/ ~OperationOn(d) ]_vars

\* device_2 has been removed while device_1 has a reading, a connected link
\* and a writer
C33_Witness ==
    /\ removed = {"device_2"}
    /\ HasReading("device_1")
    /\ devices["device_1"] # NoLink
    /\ links[devices["device_1"]].st = "connected"
    /\ MapHas(deviceWriters, "device_1")
    /\ \E l \in 1..Len(links) : links[l].id = "device_2"


\* C32: once a page that has received initial_data has handled every
\* broadcast, its connected value for each device equals the connected
\* field of that device's reading on the server.
C32_ClientServerAgree ==
    dash.open
       => \A i \in 1..Len(dash.devices) :
             HasReading(dash.devices[i].id)
                => dash.devices[i].connected = Reading(dash.devices[i].id).connected


\* C34: the first message the server sends to a page that connects is one
\* initial_data message that holds exactly the readings in deviceData at
\* that moment; no broadcast reaches the page before it.
C34_SnapshotFirst ==
    [][ /\ dash'.open
           => /\ dash'.first # << >>
              /\ dash'.first[1].type = "initial_data"
        /\ (~dash.open /\ dash'.open)
           => /\ dash'.first[1].data = Snapshot
              /\ dash'.devices = Snapshot
              /\ out'.bcast = << >> ]_vars

\* the page has connected when two readings existed and a broadcast has
\* reached it since
C34_Witness ==
    /\ dash.open
    /\ Len(dash.first[1].data) = 2
    /\ out.bcast # << >>


\* no two entries of the list have the same id
DistinctIds(list) ==
    \A i, j \in 1..Len(list) : i # j => list[i].id # list[j].id

\* C35: starting from an initial_data message with distinct ids, the page's
\* device list never holds two entries with the same id; a device_data for
\* a known id replaces that entry in place, one for an unknown id appends
\* exactly one entry.
C35_ClientUniqueIds ==
    [][ /\ DistinctIds(dash'.devices)
        /\ \A message \in PageMessages :
              (message.type = "device_data" /\ PageMessage(message))
                 => IF \E i \in 1..Len(dash.devices) :
                          dash.devices[i].id = message.deviceId
                    THEN /\ Len(dash'.devices) = Len(dash.devices)
                         /\ \A i \in 1..Len(dash.devices) :
                               dash'.devices[i] =
                                   IF dash.devices[i].id = message.deviceId
                                   THEN message.data[1]
                                   ELSE dash.devices[i]
                    ELSE dash'.devices = Append(dash.devices, message.data[1]) ]_vars

\* a device_data for device_2 has been appended after device_1
C35_Witness ==
    /\ dash.open
    /\ Len(dash.first[1].data) = 1
    /\ Len(dash.devices) = 2
    /\ dash.devices[1].id = "device_1"
    /\ dash.devices[2].id = "device_2"
    /\ dash.devices[2].current = Num(500)


\* the sockets of the dashboard that are not closed
LiveSockets == { i \in 1..Len(page.sockets) : page.sockets[i] # "CLOSED" }

\* C36: whenever the dashboard's socket closes, connecting becomes true and
\* stays true until a later socket opens; a new connection attempt is
\* eventually made; the dashboard never holds more than one socket that is
\* not closed.
C36_ClientReconnects ==
    /\ [](Cardinality(LiveSockets) <= 1)
    /\ [][ /\ (\E i \in LiveSockets : page'.sockets[i] = "CLOSED")
              => page'.connecting
           /\ (page.connecting /\ ~page'.connecting)
              => \E i \in 1..Len(page.sockets) :
                    page.sockets[i] = "CONNECTING" /\ page'.sockets[i] = "OPEN" ]_vars
    /\ \A n \in 1..(MaxSockets - 1) :
          (Len(page.sockets) = n /\ page.sockets[n] = "CLOSED")
              ~> (Len(page.sockets) > n)

\* the first socket has closed and the second one is open
C36_Witness ==
    /\ Len(page.sockets) = 2
    /\ page.sockets[1] = "CLOSED"
    /\ page.sockets[2] = "OPEN"
    /\ ~page.connecting

====
